---- MODULE Spec2Model ----
(***************************************************************************)
(* A model of lib/utils.py: the parameter resolver (get_parameter), the    *)
(* parameter set builder (validated_parameters), the schema matcher        *)
(* (check_structure) and the template set generator (render_templates).    *)
(***************************************************************************)
EXTENDS Integers, Sequences, FiniteSets, TLC

VARIABLES
    DEFAULTS,     \* the global default registry (constants.DEFAULTS): key -> value
    dictionary,   \* the raw configuration dictionary handed to the resolver
    params,       \* validated_parameters: the parameter set built so far
    pc,           \* position of the running function
    calls,        \* one record per get_parameter call made so far
    tree,         \* the directory tree on disk under the path checked
    schema,       \* the schema object the caller of check_structure holds
    flags,        \* the arguments of check_structure: create, remove, and
                  \* whether files is passed (else None: EXPERIMENT_STRUCTURE)
    runs,         \* one record per check_structure call made so far
    request,      \* the arguments of the render_templates call
    artifacts     \* what render_templates wrote and returned

paramVars == <<DEFAULTS, dictionary, params, pc, calls>>

structVars == <<tree, schema, flags, runs>>

renderVars == <<request, artifacts>>

vars ==
    <<DEFAULTS, dictionary, params, pc, calls, tree, schema, flags, runs,
      request, artifacts>>

(***************************************************************************)
(* Python values.  Every value is a record of one shape, so that any two   *)
(* values can be compared: t is the type, n the number of an int or bool,  *)
(* s the text of a str, l the elements of a list (strings).                *)
(***************************************************************************)
PyNone == [t |-> "none", n |-> 0, s |-> "", l |-> <<>>]

PyBool(b) == [t |-> "bool", n |-> IF b THEN 1 ELSE 0, s |-> "", l |-> <<>>]

PyInt(i) == [t |-> "int", n |-> i, s |-> "", l |-> <<>>]

PyStr(str) == [t |-> "str", n |-> 0, s |-> str, l |-> <<>>]

PyList(lst) == [t |-> "list", n |-> 0, s |-> "", l |-> lst]

\* Python's truth value of x: None, False, 0, "" and [] are falsy.
Truthy(x) ==
    CASE x.t = "none" -> FALSE
      [] x.t \in {"bool", "int"} -> x.n # 0
      [] x.t = "str" -> x.s # ""
      [] x.t = "list" -> x.l # <<>>
      [] OTHER -> TRUE

\* isinstance(x, int), and isinstance(x, (int, float)) on the values modelled:
\* bool is a subclass of int.
IsNumber(x) == x.t \in {"int", "bool"}

(***************************************************************************)
(* A dictionary maps names to entries.  An entry is a nested dictionary    *)
(* (a section: key -> value) or a plain value.                             *)
(***************************************************************************)
NoKeys == [k \in {} |-> PyNone]

Section(d) == [kind |-> "dict", d |-> d, v |-> PyNone]

Plain(v) == [kind |-> "val", d |-> NoKeys, v |-> v]

\* f with key k removed (dict.pop's effect on the dictionary)
Without(f, k) == [j \in DOMAIN f \ {k} |-> f[j]]

\* f with f[k] set to v (dict item assignment)
With(f, k, v) == [j \in DOMAIN f \cup {k} |-> IF j = k THEN v ELSE f[j]]

\* dict.get(k) for a dictionary of values: the value, or None
Get(d, k) == IF k \in DOMAIN d THEN d[k] ELSE PyNone

(***************************************************************************)
(* The collaborators of the resolver's predicates.                         *)
(***************************************************************************)
\* get_available_platforms(): the platform folders found on disk
AvailablePlatforms == {"z1", "X"}

\* get_building_blocks(): the names of the blocks of building-blocks.json
AvailableBlocks == {"b1", "b2"}

\* the files os.path.exists answers True for
ExistingFiles == {"lib.so"}

(***************************************************************************)
(* The predicates validated_parameters passes as `condition`, by name.     *)
(* P holds the parameters already resolved, which the lambdas close over.  *)
(* The result is the set of outcomes the call can have: "T" (truthy),      *)
(* "F" (falsy) or "E" (the predicate raises).                              *)
(***************************************************************************)
Bool2O(b) == IF b THEN {"T"} ELSE {"F"}

\* x >= sqrt(2.0) * m on integers
GeSqrt2Times(x, m) ==
    IF m <= 0 THEN (x >= 0 \/ x * x <= 2 * m * m)
    ELSE (x >= 0 /\ x * x >= 2 * m * m)

Condition(test, x, P) ==
    CASE test = "bool" -> Bool2O(x.t = "bool")
      [] test = "str" -> Bool2O(x.t = "str")
      [] test = "posint" -> Bool2O(IsNumber(x) /\ x.n > 0)
      [] test = "platform" -> Bool2O(x.t = "str" /\ x.s \in AvailablePlatforms)
      [] test = "mtype" -> Bool2O(x.t = "str" /\ x.s \in {"root", "sensor"})
      [] test = "block" -> IF x.t = "list" THEN {"E"}
                           ELSE Bool2O(x.t = "str" /\ x.s \in AvailableBlocks)
      [] test = "extlib" ->
            CASE x.t = "none" -> {"T"}
              [] x.t = "str" -> Bool2O(x.s \in ExistingFiles)
              [] x.t = "list" -> {"E"}
              [] OTHER -> {"T", "F", "E"}
      [] test = "min" -> Bool2O(IsNumber(x) /\ x.n > 0)
      [] test = "tx" -> Bool2O(IsNumber(x) /\ x.n > P["min_range"].n)
      [] test = "int" -> Bool2O(IsNumber(x) /\ x.n >= P["tx_range"].n)
      [] test = "area" -> Bool2O(IsNumber(x) /\ GeSqrt2Times(x.n, P["min_range"].n))
      [] test = "max" -> Bool2O(IsNumber(x) /\ x.n >= P["min_range"].n)

(***************************************************************************)
(* get_parameter.                                                          *)
(***************************************************************************)
\* a diagnostic: one logger.warning call of get_parameter; `about` is the
\* element removed (list mode) or the default substituted (scalar mode)
Warning(section, key, about) == [section |-> section, key |-> key, about |-> about]

\* truth value of a dictionary entry (an empty nested dictionary is falsy)
EntryTruthy(e) == IF e.kind = "dict" THEN DOMAIN e.d # {} ELSE Truthy(e.v)

\* dictionary.pop('silent', False), the value popped
PopSilent(dic) ==
    IF "silent" \in DOMAIN dic THEN EntryTruthy(dic["silent"]) ELSE FALSE

\* faulty variant: the flag is read with get and stays in the dictionary
AfterPop_Get(dic) == dic

\* dictionary.pop('silent', False), the dictionary left
AfterPop(dic) == Without(dic, "silent")

\* (dictionary.get(section) or {}).get(key): raises when the section is a
\* truthy value without a get method, else gives the value found or None
Lookup(dic, section, key) ==
    IF section \notin DOMAIN dic \/ ~EntryTruthy(dic[section])
    THEN [raised |-> FALSE, v |-> PyNone]
    ELSE IF dic[section].kind = "dict"
         THEN [raised |-> FALSE, v |-> Get(dic[section].d, key)]
         ELSE [raised |-> TRUE, v |-> PyNone]

\* ... or DEFAULTS.get(key), then the `default` argument when still None
Fallback(raw, key, default) ==
    LET param == IF Truthy(raw) THEN raw ELSE Get(DEFAULTS, key)
    IN  IF param.t = "none" /\ default.t # "none" THEN default ELSE param

\* the loop of list mode over the elements lst[i..]: the set of its outcomes,
\* each the buffer built, the warnings logged and whether condition[0] raised
RECURSIVE FilterFrom(_, _, _, _, _, _, _)
FilterFrom(lst, i, test, P, silent, section, key) ==
    IF i > Len(lst) THEN {[raised |-> FALSE, buffer |-> <<>>, diags |-> <<>>]}
    ELSE UNION {
           CASE o = "E" -> {[raised |-> TRUE, buffer |-> <<>>, diags |-> <<>>]}
             [] o = "T" ->
                  {[r EXCEPT !.buffer = <<lst[i]>> \o r.buffer] :
                      r \in FilterFrom(lst, i + 1, test, P, silent, section, key)}
             [] o = "F" ->
                  {[r EXCEPT !.diags =
                        (IF silent THEN <<>>
                         ELSE <<Warning(section, key, PyStr(lst[i]))>>) \o r.diags] :
                      r \in FilterFrom(lst, i + 1, test, P, silent, section, key)}
           : o \in Condition(test, PyStr(lst[i]), P)}

\* what a get_parameter call leaves: the dictionary after the pop, whether the
\* call raised, the value returned, the warnings logged, the silent flag it
\* popped, the branch taken and the value resolved before validation
Outcome(d, raised, value, diags, silent, mode, param, raw) ==
    [dict |-> d, raised |-> raised, value |-> value, diags |-> diags,
     silent |-> silent, mode |-> mode, param |-> param, raw |-> raw]

\* faulty variant: the failing value is logged but not replaced
ScalarMode_NoSubstitution(d, section, key, condition, silent, param, raw, P) ==
    IF condition.list
    THEN {Outcome(d, TRUE, PyNone, <<>>, silent, "scalar", param, raw)}
    ELSE { CASE o = "E" -> Outcome(d, TRUE, PyNone, <<>>, silent, "scalar", param, raw)
             [] o = "T" -> Outcome(d, FALSE, param, <<>>, silent, "scalar", param, raw)
             [] o = "F" ->
                  IF key \notin DOMAIN DEFAULTS
                  THEN Outcome(d, TRUE, PyNone, <<>>, silent, "scalar", param, raw)
                  ELSE Outcome(d, FALSE, param,
                               IF silent THEN <<>>
                               ELSE <<Warning(section, key, DEFAULTS[key])>>,
                               silent, "scalar", param, raw)
           : o \in Condition(condition.test, param, P) }

\* the else branch: scalar mode
ScalarMode(d, section, key, condition, silent, param, raw, P) ==
    IF condition.list
    THEN \* condition(param) on a list: 'list' object is not callable
         {Outcome(d, TRUE, PyNone, <<>>, silent, "scalar", param, raw)}
    ELSE { CASE o = "E" -> Outcome(d, TRUE, PyNone, <<>>, silent, "scalar", param, raw)
             [] o = "T" -> Outcome(d, FALSE, param, <<>>, silent, "scalar", param, raw)
             [] o = "F" ->
                  IF key \notin DOMAIN DEFAULTS
                  THEN \* DEFAULTS[key]: KeyError, before anything is logged
                       Outcome(d, TRUE, PyNone, <<>>, silent, "scalar", param, raw)
                  ELSE Outcome(d, FALSE, DEFAULTS[key],
                               IF silent THEN <<>>
                               ELSE <<Warning(section, key, DEFAULTS[key])>>,
                               silent, "scalar", param, raw)
           : o \in Condition(condition.test, param, P) }

\* faulty variant: every element is appended to the buffer, dropped or not
ListMode_KeepsAll(d, section, key, condition, silent, param, raw, P) ==
    { Outcome(d, r.raised, IF r.raised THEN PyNone ELSE param,
              r.diags, silent, "list", param, raw)
      : r \in FilterFrom(param.l, 1, condition.test, P, silent, section, key) }

\* the if branch: list mode
ListMode(d, section, key, condition, silent, param, raw, P) ==
    { Outcome(d, r.raised, IF r.raised THEN PyNone ELSE PyList(r.buffer),
              r.diags, silent, "list", param, raw)
      : r \in FilterFrom(param.l, 1, condition.test, P, silent, section, key) }

\* get_parameter(dictionary, section, key, condition, reason, default): the
\* set of outcomes of the call (one, unless the predicate's answer depends on
\* the interpreter or the machine)
get_parameter(dict, section, key, condition, default, P) ==
    LET silent == PopSilent(dict)
        d == AfterPop(dict)
        found == Lookup(d, section, key)
        param == Fallback(found.v, key, default)
    IN  IF found.raised
        THEN {Outcome(d, TRUE, PyNone, <<>>, silent, "none", PyNone, PyNone)}
        ELSE IF condition.list /\ param.t = "list"
             THEN ListMode(d, section, key, condition, silent, param, found.v, P)
             ELSE ScalarMode(d, section, key, condition, silent, param, found.v, P)

(***************************************************************************)
(* validated_parameters: the get_parameter calls in the order made.        *)
(***************************************************************************)
Call(name, section, key, list, test) ==
    [name |-> name, section |-> section, key |-> key,
     condition |-> [list |-> list, test |-> test]]

Calls ==
    << Call("debug", "simulation", "debug", FALSE, "bool"),
       Call("title", "simulation", "title", FALSE, "str"),
       Call("goal", "simulation", "goal", FALSE, "str"),
       Call("notes", "simulation", "notes", FALSE, "str"),
       Call("duration", "simulation", "duration", FALSE, "posint"),
       Call("n", "simulation", "number-motes", FALSE, "posint"),
       Call("repeat", "simulation", "repeat", FALSE, "posint"),
       Call("target", "simulation", "target", FALSE, "platform"),
       Call("malicious_target", "malicious", "target", FALSE, "platform"),
       Call("mtype", "malicious", "type", FALSE, "mtype"),
       Call("blocks", "malicious", "building-blocks", TRUE, "block"),
       Call("ext_lib", "malicious", "external-library", FALSE, "extlib"),
       Call("min_range", "simulation", "minimum-distance-from-root", FALSE, "min"),
       Call("tx_range", "simulation", "transmission-range", FALSE, "tx"),
       Call("int_range", "simulation", "interference-range", FALSE, "int"),
       Call("area_side", "simulation", "area-square-side", FALSE, "area"),
       Call("max_range", "simulation", "area-square-side", FALSE, "max") >>

\* the `default` argument of the call that resolves `name`
DefaultArg(name, P) ==
    CASE name = "malicious_target" -> P["target"]
      [] name = "int_range" -> PyInt(2 * P["tx_range"].n)
      [] OTHER -> PyNone

(***************************************************************************)
(* The default registry and the raw configurations explored.               *)
(***************************************************************************)
\* constants.DEFAULTS with an entry for every key validated
BaseRegistry ==
    ("debug" :> PyBool(TRUE)) @@ ("title" :> PyStr("Default title")) @@
    ("goal" :> PyStr("")) @@ ("notes" :> PyStr("")) @@
    ("duration" :> PyInt(300)) @@ ("number-motes" :> PyInt(10)) @@
    ("repeat" :> PyInt(1)) @@ ("target" :> PyStr("z1")) @@
    ("type" :> PyStr("sensor")) @@ ("building-blocks" :> PyList(<<>>)) @@
    ("external-library" :> PyNone) @@
    ("minimum-distance-from-root" :> PyInt(20)) @@
    ("transmission-range" :> PyInt(50)) @@
    ("interference-range" :> PyInt(100)) @@
    ("area-square-side" :> PyInt(200))

\* the contents of the registry explored: complete, and with one key missing
Registries ==
    {BaseRegistry, Without(BaseRegistry, "interference-range"),
     Without(BaseRegistry, "target")}

\* at most this many keys are set in a raw configuration
MaxSet == 2

\* a configured list has at most this many elements
MaxBlocks == 2

\* the sequences over S of length at most n
RECURSIVE SeqsUpTo(_, _)
SeqsUpTo(S, n) ==
    IF n = 0 THEN {<<>>}
    ELSE LET shorter == SeqsUpTo(S, n - 1)
         IN  shorter \cup {Append(q, x) : q \in shorter, x \in S}

\* the values a raw configuration may give to `key` of `section`
RawValues(section, key) ==
    CASE key = "debug" -> {PyBool(FALSE), PyStr("yes")}
      [] key = "title" -> {PyInt(5)}
      [] key = "goal" -> {PyInt(5)}
      [] key = "notes" -> {PyStr("n")}
      [] key = "duration" -> {PyInt(2), PyInt(0)}
      [] key = "number-motes" -> {PyInt(3)}
      [] key = "repeat" -> {PyInt(-1)}
      [] key = "target" -> {PyStr("X"), PyStr("bad")}
      [] key = "type" -> {PyStr("root"), PyStr("leaf")}
      [] key = "building-blocks" ->
            {PyList(q) : q \in SeqsUpTo({"b1", "zz"}, MaxBlocks)} \cup {PyStr("b1")}
      [] key = "external-library" -> {PyStr("lib.so"), PyStr("nope"), PyList(<<"a">>)}
      [] key = "minimum-distance-from-root" -> {PyInt(10), PyInt(0)}
      [] key = "transmission-range" -> {PyInt(30), PyInt(5)}
      [] key = "interference-range" -> {PyInt(20), PyInt(60), PyStr("far")}
      [] key = "area-square-side" -> {PyInt(25), PyInt(100)}

\* the (section, key) pairs validated_parameters reads
ConfigKeys == {<<Calls[i].section, Calls[i].key>> : i \in 1..Len(Calls)}

\* dic with dic[section][key] = v
SetKey(dic, section, key, v) ==
    With(dic, section,
         Section(With(IF section \in DOMAIN dic THEN dic[section].d ELSE NoKeys, key, v)))

\* the number of keys set in the sections of dic
KeysSet(dic) ==
    LET n(sec) == IF sec \in DOMAIN dic /\ dic[sec].kind = "dict"
                  THEN Cardinality(DOMAIN dic[sec].d) ELSE 0
    IN  n("simulation") + n("malicious")

\* the configurations with at most n keys set in their sections
RECURSIVE ConfigsUpTo(_)
ConfigsUpTo(n) ==
    IF n = 0 THEN {[k \in {} |-> Plain(PyNone)]}
    ELSE LET fewer == ConfigsUpTo(n - 1)
         IN  fewer \cup UNION {{SetKey(c, sk[1], sk[2], v) :
                                    c \in fewer, v \in RawValues(sk[1], sk[2])} :
                                  sk \in ConfigKeys}

\* the values a caller may store under 'silent'
SilentValues == {PyBool(TRUE), PyBool(FALSE)}

\* a configuration, with or without the reserved 'silent' flag
WithSilent(C) == C \cup {With(c, "silent", Plain(v)) : c \in C, v \in SilentValues}

\* a configuration whose section is not a dictionary
BadSections ==
    {With(c, sec, Plain(v)) :
        c \in ConfigsUpTo(1), sec \in {"simulation", "malicious"},
        v \in {PyStr("oops"), PyList(<<>>)}}

(***************************************************************************)
(* The calls made.                                                         *)
(***************************************************************************)
\* the record kept of call number i of Calls and its outcome o
CallRecord(i, o) ==
    [site |-> i, name |-> Calls[i].name, section |-> Calls[i].section,
     key |-> Calls[i].key, list |-> Calls[i].condition.list,
     raised |-> o.raised, value |-> o.value, diags |-> o.diags,
     silent |-> o.silent, mode |-> o.mode, param |-> o.param, raw |-> o.raw]

\* the last call raised
Raised == calls # <<>> /\ calls[Len(calls)].raised

\* validated_parameters has returned its parameter set
Returned == pc = Len(Calls) + 1

\* the parameters the predicates of a direct call close over
ClosureParams ==
    { ("target" :> PyStr("X")) @@ ("min_range" :> PyInt(10)) @@ ("tx_range" :> PyInt(30)),
      ("target" :> PyStr("z1")) @@ ("min_range" :> PyInt(20)) @@ ("tx_range" :> PyInt(50)) }

\* nothing written by the template set generator
NoArtifacts ==
    [done |-> FALSE, with |-> <<>>, with_index |-> <<>>,
     without |-> <<>>, without_index |-> <<>>, replacements |-> <<>>]

\* the template set generator is not running
RenderIdle ==
    /\ request = [only_malicious |-> FALSE, params |-> NoKeys]
    /\ artifacts = NoArtifacts

\* the schema matcher is not running
StructIdle ==
    /\ tree = [dirs |-> {}, regs |-> {}]
    /\ schema = NoKeys
    /\ flags = [create |-> FALSE, remove |-> FALSE, passed |-> FALSE]
    /\ runs = <<>>

(***************************************************************************)
(* validated_parameters(dictionary), one get_parameter call per step.      *)
(***************************************************************************)
InitVP ==
    /\ DEFAULTS \in Registries
    /\ dictionary \in WithSilent(ConfigsUpTo(MaxSet))
    /\ params = ("motes" :> (IF "motes" \in DOMAIN dictionary
                             THEN dictionary["motes"].v ELSE PyNone))
    /\ pc = 1
    /\ calls = <<>>
    /\ StructIdle
    /\ RenderIdle

\* the next params[...] = get_parameter(...) line; an exception leaves
\* validated_parameters at once
Resolve ==
    /\ pc \in 1..Len(Calls)
    /\ ~Raised
    /\ \E o \in get_parameter(dictionary, Calls[pc].section, Calls[pc].key,
                              Calls[pc].condition, DefaultArg(Calls[pc].name, params),
                              params) :
          /\ dictionary' = o.dict
          /\ calls' = Append(calls, CallRecord(pc, o))
          /\ params' = IF o.raised THEN params ELSE With(params, Calls[pc].name, o.value)
          /\ pc' = IF o.raised THEN pc ELSE pc + 1
    /\ UNCHANGED <<DEFAULTS, structVars, renderVars>>

NextVP == Resolve

SpecVP == InitVP /\ [][NextVP]_vars

(***************************************************************************)
(* get_parameter called directly, any number of times on one dictionary,   *)
(* with the arguments of any of validated_parameters' calls.               *)
(***************************************************************************)
InitGet ==
    /\ DEFAULTS \in Registries
    /\ dictionary \in WithSilent(ConfigsUpTo(1) \cup BadSections)
    /\ params \in ClosureParams
    /\ pc = 0
    /\ calls = <<>>
    /\ StructIdle
    /\ RenderIdle

DirectCall ==
    /\ pc = 0
    /\ \E i \in 1..Len(Calls) :
         \E o \in get_parameter(dictionary, Calls[i].section, Calls[i].key,
                                Calls[i].condition, DefaultArg(Calls[i].name, params),
                                params) :
            /\ dictionary' = o.dict
            /\ calls' = <<CallRecord(i, o)>>
    /\ UNCHANGED <<DEFAULTS, params, pc, structVars, renderVars>>

NextGet == DirectCall

SpecGet == InitGet /\ [][NextGet]_vars

(***************************************************************************)
(* Claims about the parameter resolver and the parameter set builder.      *)
(***************************************************************************)
\* the last get_parameter call made
Last == calls[Len(calls)]

\* the answer of call c's predicate on value x, the predicates closing over
\* the parameters resolved so far
Answer(c, x) == Condition(Calls[c.site].condition.test, x, params)

\* C1 (as claimed): with a complete default registry, no get_parameter call
\* raises, whatever the raw configuration holds, so validated_parameters
\* always runs to its return.
C1_NeverRaises == DEFAULTS = BaseRegistry => ~Raised

\* the raw interference range of the configuration, once call 15 has read it
IntRangeCall == calls[15]

\* C2 (as claimed): when simulation.interference-range is a number below the
\* resolved transmission range, params["int_range"] is 2 * params["tx_range"]
\* (stated for the complete default registry).
C2_IntRangeIsTwiceTxRange ==
    (DEFAULTS = BaseRegistry /\ Len(calls) >= 15 /\ IsNumber(IntRangeCall.raw) /\ Truthy(IntRangeCall.raw)
        /\ IntRangeCall.raw.n < params["tx_range"].n)
    => (/\ ~IntRangeCall.raised
        /\ params["int_range"] = PyInt(2 * params["tx_range"].n))

\* the raw malicious.target of the configuration, once call 9 has read it
MaliciousTargetCall == calls[9]

\* C3 (as claimed): when malicious.target is unset, or set to something that is
\* not an available platform, params["malicious_target"] equals
\* params["target"], also when the default registry has its own entry for
\* "target" (stated for the complete default registry).
C3_MaliciousTargetDefaultsToTarget ==
    (DEFAULTS = BaseRegistry /\ Len(calls) >= 9 /\ Answer(MaliciousTargetCall, MaliciousTargetCall.raw) = {"F"})
    => (/\ ~MaliciousTargetCall.raised
        /\ params["malicious_target"] = params["target"])

\* the last call was made with a single function as predicate and found a
\* value in the configuration
ScalarCallOnUserValue ==
    /\ calls # <<>> /\ pc = 0
    /\ ~Last.list /\ Last.mode = "scalar" /\ Last.raw # PyNone

\* C4 (as claimed): in scalar mode a user-supplied value failing the predicate
\* gives exactly DEFAULTS[key] and exactly one diagnostic; a value satisfying
\* the predicate is returned unchanged with no diagnostic.
C4_Original ==
    ScalarCallOnUserValue =>
      /\ Answer(Last, Last.raw) = {"F"} =>
            /\ ~Last.raised /\ Last.key \in DOMAIN DEFAULTS
            /\ Last.value = DEFAULTS[Last.key]
            /\ Len(Last.diags) = 1
      /\ Answer(Last, Last.raw) = {"T"} =>
            /\ ~Last.raised /\ Last.value = Last.raw /\ Last.diags = <<>>

\* C4 (amended): in scalar mode a truthy user-supplied value failing the
\* predicate gives exactly DEFAULTS[key], with exactly one diagnostic unless the
\* call popped a truthy 'silent' (then none); when DEFAULTS has no entry for
\* key the call raises instead and logs nothing; a truthy value satisfying the
\* predicate is returned unchanged with no diagnostic.
C4_ScalarDefaultSubstitution ==
    (ScalarCallOnUserValue /\ Truthy(Last.raw)) =>
      /\ (Answer(Last, Last.raw) = {"F"} /\ Last.key \in DOMAIN DEFAULTS) =>
            /\ ~Last.raised
            /\ Last.value = DEFAULTS[Last.key]
            /\ Last.diags = IF Last.silent THEN <<>>
                            ELSE <<Warning(Last.section, Last.key, DEFAULTS[Last.key])>>
      /\ (Answer(Last, Last.raw) = {"F"} /\ Last.key \notin DOMAIN DEFAULTS) =>
            /\ Last.raised /\ Last.diags = <<>>
      /\ Answer(Last, Last.raw) = {"T"} =>
            /\ ~Last.raised /\ Last.value = Last.raw /\ Last.diags = <<>>

\* C4 witness: a direct scalar call whose truthy value failed the predicate
\* and was replaced by a different registry default, with one diagnostic.
C4_Witness ==
    /\ ScalarCallOnUserValue /\ Truthy(Last.raw)
    /\ Answer(Last, Last.raw) = {"F"}
    /\ ~Last.raised /\ ~Last.silent
    /\ Last.value # Last.raw /\ Len(Last.diags) = 1

\* the last call ran the list-mode loop
ListCall == calls # <<>> /\ pc = 0 /\ Last.mode = "list"

\* the elements of list lst that satisfy the element test of building blocks
Kept(lst) == SelectSeq(lst, LAMBDA e : e \in AvailableBlocks)

\* the elements of list lst that fail it
Dropped(lst) == SelectSeq(lst, LAMBDA e : e \notin AvailableBlocks)

FailedValidation(i) ==
    IF calls[i].mode = "list" THEN Dropped(calls[i].param.l) # <<>>
    ELSE calls[i].mode = "scalar" /\ ~calls[i].list
         /\ Answer(calls[i], calls[i].param) = {"F"}

\* C9: once validated_parameters has made its first get_parameter call the
\* dictionary holds no 'silent' key, no later call sees the flag, and every
\* later call given a failing value logs its diagnostics (or raises).
C9_SilentConsumedOnce ==
    (pc >= 1 /\ Len(calls) >= 1) =>
      /\ "silent" \notin DOMAIN dictionary
      /\ \A i \in 2..Len(calls) :
            /\ ~calls[i].silent
            /\ (FailedValidation(i) /\ ~calls[i].raised) => calls[i].diags # <<>>

\* C9 witness: the first call popped a truthy 'silent' and replaced a failing
\* value without logging; a later call logged a diagnostic.
C9_Witness ==
    /\ pc >= 1 /\ Len(calls) >= 2
    /\ calls[1].silent /\ FailedValidation(1)
    /\ ~calls[1].raised /\ calls[1].diags = <<>>
    /\ \E i \in 2..Len(calls) : FailedValidation(i) /\ calls[i].diags # <<>>

(***************************************************************************)
(* check_structure.  A file name is a sequence of tokens, "." being the    *)
(* dot and every other token a run of characters without a dot; a path is  *)
(* the sequence of names below the path checked (the root, << >>).  The    *)
(* tree on disk is the set of directories and the set of regular files.    *)
(***************************************************************************)
Root == <<>>

\* os.path.exists(path)
Exists(t, path) == path \in t.dirs \cup t.regs

\* os.listdir(path): the names in directory path
Listdir(t, path) ==
    {q[Len(q)] : q \in {e \in t.dirs \cup t.regs :
                          Len(e) = Len(path) + 1 /\ SubSeq(e, 1, Len(path)) = path}}

\* os.makedirs(path): path and every missing directory above it
Makedirs(t, path) ==
    [t EXCEPT !.dirs = @ \cup {SubSeq(path, 1, i) : i \in 0..Len(path)}]

\* helpers.remove_files(path, item): the entry and all below it are deleted
RemoveFiles(t, path, item) ==
    LET gone(e) == Len(e) > Len(path) /\ SubSeq(e, 1, Len(path) + 1) = Append(path, item)
    IN  [dirs |-> {e \in t.dirs : ~gone(e)}, regs |-> {e \in t.regs : ~gone(e)}]

\* the index of the last "." of name, 0 when it has none
LastDot(name) ==
    IF \E i \in 1..Len(name) : name[i] = "."
    THEN CHOOSE i \in 1..Len(name) :
            name[i] = "." /\ \A j \in (i + 1)..Len(name) : name[j] # "."
    ELSE 0

\* os.path.splitext(name)[0]: the name up to its last dot, unless only dots
\* come before that dot
Stem(name) ==
    LET i == LastDot(name)
    IN  IF i > 0 /\ \E j \in 1..(i - 1) : name[j] # "." THEN SubSeq(name, 1, i - 1)
        ELSE name

\* '{}.*'.format(splitext(item)[0])
Wildcard(item) == Stem(item) \o <<".", "*">>

\* no schema key matches
NoMatch == <<"?">>

\* the schema key an item matches: its own name, else its wildcard
Match(item, files) ==
    IF item \in DOMAIN files THEN item
    ELSE IF Wildcard(item) \in DOMAIN files THEN Wildcard(item)
    ELSE NoMatch

\* schema nodes: a boolean leaf, or a nested schema
Leaf(b) == [leaf |-> TRUE, val |-> b, sub |-> <<>>]

Node(sub) == [leaf |-> FALSE, val |-> FALSE, sub |-> sub]

\* truth value of a schema node: a nested schema is truthy unless empty
NodeTruthy(node) == IF node.leaf THEN node.val ELSE DOMAIN node.sub # {}

\* files.get('*')
StarTruthy(files) == <<"*">> \in DOMAIN files /\ NodeTruthy(files[<<"*">>])

\* faulty variant: any(files.values())
AllValues_Any(files) == \E k \in DOMAIN files : NodeTruthy(files[k])

\* all(files.values())
AllValues(files) == \A k \in DOMAIN files : NodeTruthy(files[k])

\* the orders in which the elements of set S can be listed
RECURSIVE Orders(_)
Orders(S) ==
    IF S = {} THEN {<<>>}
    ELSE UNION {{<<x>> \o q : q \in Orders(S \ {x})} : x \in S}

\* what a check_structure call leaves: "True", "False" or "raise", the files
\* dictionary as mutated, the tree, and the (item, key) matches of its loop
Checked(result, files, t, matches) ==
    [result |-> result, files |-> files, tree |-> t, matches |-> matches]

RECURSIVE check_structure(_, _, _, _, _)
RECURSIVE Loop(_, _, _, _, _, _, _, _)

\* the for loop over items[i..]
Loop(items, i, t, path, files, create, remove, matches) ==
    IF i > Len(items)
    THEN {Checked(IF AllValues(files) THEN "True" ELSE "False", files, t, matches)}
    ELSE LET item == items[i]
             match == Match(item, files)
         IN  IF match = NoMatch
             THEN Loop(items, i + 1,
                       IF remove THEN RemoveFiles(t, path, item) ELSE t,
                       path, files, create, remove, matches)
             ELSE IF files[match].leaf
             THEN Loop(items, i + 1, t, path, With(files, match, Leaf(TRUE)),
                       create, remove, matches \cup {<<item, match>>})
             ELSE UNION {
                    IF r.result = "raise"
                    THEN {Checked("raise", files, r.tree, matches \cup {<<item, match>>})}
                    ELSE Loop(items, i + 1, r.tree, path,
                              With(files, match, Leaf(r.result = "True")),
                              create, remove, matches \cup {<<item, match>>})
                    : r \in check_structure(t, Append(path, match), files[match].sub,
                                            create, remove) }

\* check_structure(path, files, create, remove) on tree t: the set of its
\* outcomes, one per order in which the keys and the directory are listed
check_structure(t, path, files, create, remove) ==
    LET made == IF create /\ ~Exists(t, path) THEN Makedirs(t, path) ELSE t
        keys == IF create THEN {k \in DOMAIN files : ~files[k].leaf} ELSE {}
    IN  IF StarTruthy(files) THEN {Checked("True", files, made, {})}
        ELSE IF path \notin made.dirs
        THEN \* os.listdir raises: no such directory, or not a directory
             {Checked("raise", files, made, {})}
        ELSE UNION {Loop(ks \o es, 1, made, path, files, create, remove, {}) :
                      ks \in Orders(keys), es \in Orders(Listdir(made, path))}

(***************************************************************************)
(* The trees and the schemas explored.                                     *)
(***************************************************************************)
NReport == <<"report">>

NReportTxt == <<"report", ".", "txt">>

NReportJson == <<"report", ".", "json">>

NData == <<"data">>

NMotes == <<"motes", ".", "json">>

NNotes == <<"notes", ".", "txt">>

KReportStar == <<"report", ".", "*">>

KStar == <<"*">>

\* a directory of a tree has at most this many entries
MaxEntries == 3

\* check_structure is run at most this many times on a tree
MaxRuns == 2

\* the entry "data" of the root: missing, a regular file, or a directory
DataVariants ==
    {[dirs |-> {}, regs |-> {}], [dirs |-> {}, regs |-> {<<NData>>}]}
    \cup {[dirs |-> {<<NData>>}, regs |-> {<<NData, f>> : f \in C}] :
            C \in SUBSET {NMotes, NNotes}}

\* the trees: the path checked missing, a regular file, or a directory
Trees ==
    {[dirs |-> {}, regs |-> {}], [dirs |-> {}, regs |-> {Root}]}
    \cup {[dirs |-> {Root} \cup dd.dirs, regs |-> {<<f>> : f \in F} \cup dd.regs] :
            F \in {G \in SUBSET {NReport, NReportTxt, NReportJson} :
                     Cardinality(G) < MaxEntries},
            dd \in DataVariants}
    \cup {[dirs |-> {Root}, regs |-> {<<f>> : f \in F}] :
            F \in {G \in SUBSET {NReport, NReportTxt, NReportJson} :
                     Cardinality(G) <= MaxEntries}}

NoSchema == [k \in {} |-> Leaf(TRUE)]

\* key k absent, or bound to one of nodes
Opt(k, nodes) == {NoSchema} \cup {k :> n : n \in nodes}

SubSchemas ==
    {NoSchema, NMotes :> Leaf(FALSE), NMotes :> Leaf(TRUE), KStar :> Leaf(TRUE)}

Schemas ==
    {a @@ b @@ c @@ d :
        a \in Opt(KReportStar, {Leaf(TRUE), Leaf(FALSE), Node(NMotes :> Leaf(FALSE))}),
        b \in Opt(NReportTxt, {Leaf(FALSE)}),
        c \in Opt(NData, {Node(sub) : sub \in SubSchemas}),
        d \in Opt(KStar, {Leaf(TRUE)})}

\* the parameter resolver is not running
ParamIdle ==
    /\ DEFAULTS = BaseRegistry
    /\ dictionary = NoKeys
    /\ params = NoKeys
    /\ pc = 0
    /\ calls = <<>>

(***************************************************************************)
(* check_structure run on one tree, the caller passing its schema as       *)
(* `files` or leaving files=None (a deep copy of EXPERIMENT_STRUCTURE).    *)
(***************************************************************************)
InitCS ==
    /\ tree \in Trees
    /\ schema \in Schemas
    /\ flags \in [create : BOOLEAN, remove : BOOLEAN, passed : BOOLEAN]
    /\ runs = <<>>
    /\ ParamIdle
    /\ RenderIdle

\* the record kept of a run: its result, the tree before and after, the
\* schema it was given and the matches of its top-level loop
RunRecord(r) ==
    [result |-> r.result, before |-> tree, after |-> r.tree,
     files |-> schema, left |-> r.files, matches |-> r.matches]

Check ==
    /\ Len(runs) < MaxRuns
    /\ \E r \in check_structure(tree, Root, schema, flags.create, flags.remove) :
          /\ tree' = r.tree
          /\ schema' = IF flags.passed THEN r.files ELSE schema
          /\ runs' = Append(runs, RunRecord(r))
    /\ UNCHANGED <<flags, paramVars, renderVars>>

NextCS == Check

SpecCS == InitCS /\ [][NextCS]_vars

(***************************************************************************)
(* Claims about the schema matcher.                                        *)
(***************************************************************************)
\* run number i ran its loop to the end
Completed(i) == runs[i].result # "raise" /\ ~StarTruthy(runs[i].files)

\* no entry of the directory checked by run i matches schema key k
Unmatched(i, k) ==
    \A item \in Listdir(runs[i].before, Root) : Match(item, runs[i].files) # k

\* C6 (as claimed): an entry matches a schema key by its exact name first,
\* else by the wildcard of its stem; the key report.* is matched by report.txt
\* and report.json and is not matched by the entry report.
C6_WildcardMatching ==
    \A i \in 1..Len(runs) :
       /\ \A m \in runs[i].matches :
             m[2] = IF m[1] \in DOMAIN runs[i].files THEN m[1] ELSE Wildcard(m[1])
       /\ (Completed(i) /\ KReportStar \in DOMAIN runs[i].files) =>
             \A item \in Listdir(runs[i].before, Root) \cap {NReportTxt, NReportJson} :
                item \notin DOMAIN runs[i].files => <<item, KReportStar>> \in runs[i].matches
       /\ Completed(i) => <<NReport, KReportStar>> \notin runs[i].matches

\* C7 (as claimed): a leaf true is a file that must exist, so the check
\* returns False when no entry matches its key; a leaf false is optional, so
\* a schema of false leaves only cannot make the check return False.
C7_Original ==
    \A i \in 1..Len(runs) :
       Completed(i) =>
         /\ \A k \in DOMAIN runs[i].files :
               (runs[i].files[k].leaf /\ runs[i].files[k].val /\ Unmatched(i, k))
               => runs[i].result = "False"
         /\ (\A k \in DOMAIN runs[i].files :
               runs[i].files[k].leaf /\ ~runs[i].files[k].val)
            => runs[i].result = "True"

\* C7 (amended): the leaf values mean the opposite.  A leaf false is a file
\* that must exist: the check returns False when no entry matches its key.  A
\* leaf true is satisfied from the start: a check that returns False has a
\* false leaf that nothing matches or a nested schema, and a schema of true
\* leaves only gives True.  (For a call that reaches its return and whose
\* schema has no truthy "*" entry.)
C7_LeafSemantics ==
    \A i \in 1..Len(runs) :
       Completed(i) =>
         /\ \A k \in DOMAIN runs[i].files :
               (runs[i].files[k].leaf /\ ~runs[i].files[k].val /\ Unmatched(i, k))
               => runs[i].result = "False"
         /\ runs[i].result = "False" =>
               \E k \in DOMAIN runs[i].files :
                  \/ ~runs[i].files[k].leaf
                  \/ ~runs[i].files[k].val /\ Unmatched(i, k)
         /\ (\A k \in DOMAIN runs[i].files :
               runs[i].files[k].leaf /\ runs[i].files[k].val)
            => runs[i].result = "True"

\* C7 witness: a run over a schema of two leaves that nothing matches, one
\* false and one true, returned False.
C7_Witness ==
    /\ Len(runs) >= 1 /\ Completed(1) /\ runs[1].result = "False"
    /\ DOMAIN runs[1].files = {KReportStar, NReportTxt}
    /\ runs[1].files[KReportStar] = Leaf(TRUE) /\ Unmatched(1, KReportStar)
    /\ runs[1].files[NReportTxt] = Leaf(FALSE) /\ Unmatched(1, NReportTxt)

\* C8 (as claimed): with create=True (remove set or not) and the same schema,
\* a second run on the tree the first run left returns what the first run
\* returned and leaves the tree as it found it.
C8_CreateIdempotent ==
    (Len(runs) >= 2 /\ flags.create /\ ~flags.passed /\ runs[1].result # "raise")
    => (/\ runs[2].result = runs[1].result
        /\ runs[2].after = runs[1].after)

\* the schema object after run number i: what the next run was given, or the
\* schema as it is now
SchemaAfter(i) == IF i < Len(runs) THEN runs[i + 1].files ELSE schema

\* C11 (as claimed): check_structure never mutates the schema it is given.
\* After any call, with files=None (the built-in EXPERIMENT_STRUCTURE) or with
\* a dictionary passed by the caller, every key of the schema still holds the
\* value it had before the call, at the top level and in nested sub-schemas.
C11_SchemaNeverMutated ==
    \A i \in 1..Len(runs) :
       /\ DOMAIN SchemaAfter(i) = DOMAIN runs[i].files
       /\ \A k \in DOMAIN runs[i].files : SchemaAfter(i)[k] = runs[i].files[k]

(***************************************************************************)
(* render_templates.                                                       *)
(***************************************************************************)
NoFields == [k \in {} |-> 0]

\* constants.TEMPLATES: the base catalog, template name -> field bindings
TEMPLATES ==
    ("motes/Makefile" :> ("contiki" :> "CONTIKI_FOLDER")) @@
    ("motes/root.c" :> NoFields) @@ ("motes/sensor.c" :> NoFields) @@
    ("motes/malicious.c" :> NoFields) @@ ("script.js" :> NoFields) @@
    ("simulation.csc" :>
        ("mote_types" :> << [name |-> "root", target |-> ""],
                            [name |-> "sensor", target |-> ""],
                            [name |-> "malicious", target |-> ""] >>))

\* building-blocks.json: block name -> its items in file order; const tells
\* an upper-case key that does not end in .c or .h
BlockItems ==
    ("b1" :> << [key |-> "RPL_CONF_MIN_HOPRANKINC", const |-> TRUE, value |-> 128,
                 line |-> <<"", "">>],
                [key |-> "rpl-icmp6.c", const |-> FALSE, value |-> 0,
                 line |-> <<"dag->version", "dag->version++">>] >>) @@
    ("b2" :> << [key |-> "RPL_CONF_MIN_HOPRANKINC", const |-> TRUE, value |-> 256,
                 line |-> <<"", "">>],
                [key |-> "rpl-timers.c", const |-> FALSE, value |-> 0,
                 line |-> <<"dag->version", "0">>] >>)

\* the position of key in a list of [key, ...] records, 0 when absent
IndexOfKey(lst, key) ==
    IF \E i \in 1..Len(lst) : lst[i].key = key
    THEN CHOOSE i \in 1..Len(lst) : lst[i].key = key
    ELSE 0

\* one item of a block: a new constant is kept, a known one skipped; a
\* replacement is stored unless its file is known and its source line is
\* already replaced somewhere
AddItem(cr, item) ==
    IF item.const
    THEN IF IndexOfKey(cr.constants, item.key) # 0 THEN cr
         ELSE [cr EXCEPT !.constants = Append(@, [key |-> item.key, value |-> item.value])]
    ELSE LET at == IndexOfKey(cr.replacements, item.key)
         IN  IF at # 0 /\ \E i \in 1..Len(cr.replacements) :
                              cr.replacements[i].line[1] = item.line[1]
             THEN cr
             ELSE IF at # 0
                  THEN [cr EXCEPT !.replacements[at].line = item.line]
                  ELSE [cr EXCEPT !.replacements =
                            Append(@, [key |-> item.key, line |-> item.line])]

RECURSIVE AddItems(_, _, _)
AddItems(cr, items, i) ==
    IF i > Len(items) THEN cr ELSE AddItems(AddItem(cr, items[i]), items, i + 1)

\* get_constants_and_replacements(blocks), over blocks[i..]
RECURSIVE get_constants_and_replacements(_, _, _)
get_constants_and_replacements(cr, blocks, i) ==
    IF i > Len(blocks) THEN cr
    ELSE get_constants_and_replacements(AddItems(cr, BlockItems[blocks[i]], 1),
                                        blocks, i + 1)

\* wsngenerator.generate_motes: the root, n sensors and last the malicious mote
generate_motes(n) == [i \in 1..(n + 2) |-> [id |-> i - 1, x |-> i - 1, y |-> 0]]

\* templates[name][field] = v
SetField(t, name, field, v) == With(t, name, With(t[name], field, v))

\* str.capitalize() of the platform names
Capitalize(str) ==
    CASE str = "z1" -> "Z1"
      [] str = "sky" -> "Sky"
      [] OTHER -> str

\* {m['id']: (m['x'], m['y']) for m in motes}: a later mote replaces an
\* earlier one of the same id
IndexDict(motes) ==
    [i \in {motes[j].id : j \in 1..Len(motes)} |->
        LET j == CHOOSE j \in 1..Len(motes) :
                    motes[j].id = i /\ \A k \in (j + 1)..Len(motes) : motes[k].id # i
        IN  <<motes[j].x, motes[j].y>>]

\* json.dump(d, f, sort_keys=True): the entries of d by ascending key
RECURSIVE Dump(_)
Dump(d) ==
    IF DOMAIN d = {} THEN <<>>
    ELSE LET k == CHOOSE k \in DOMAIN d : \A j \in DOMAIN d : k <= j
         IN  <<[key |-> k, value |-> d[k]]>> \o Dump(Without(d, k))

\* faulty variant: the first element is dropped instead of the last
ButLast_DropsFirst(lst) == SubSeq(lst, 2, Len(lst))

\* motes[:-1], mote_types[:-1]
ButLast(lst) == SubSeq(lst, 1, Len(lst) - 1)

\* the templates as bound before the with-malicious variant is rendered
BoundWith(t, P, motes) ==
    LET t1 == SetField(t, "motes/Makefile", "target", P.target)
        t2 == SetField(t1, "script.js", "timeout", 1000 * P.duration)
        t3 == SetField(t2, "script.js", "sampling_period",
                       t2["script.js"]["timeout"] \div 100)
        csc == ("title" :> <<P.title, " (with the malicious mote)">>) @@
               ("goal" :> P.goal) @@ ("notes" :> P.notes) @@
               ("interference_range" :> P.int_range) @@
               ("transmitting_range" :> P.tx_range) @@
               ("target" :> P.target) @@
               ("target_capitalized" :> Capitalize(P.target)) @@
               ("malicious_target" :> P.malicious_target) @@
               ("malicious_target_capitalized" :> Capitalize(P.malicious_target)) @@
               ("motes" :> motes) @@
               ("mote_types" :>
                   [i \in DOMAIN t3["simulation.csc"]["mote_types"] |->
                      LET mt == t3["simulation.csc"]["mote_types"][i]
                      IN  [mt EXCEPT !.target = IF mt.name # "malicious" THEN P.target
                                                ELSE P.malicious_target]]) @@
               t3["simulation.csc"]
    IN  With(t3, "simulation.csc", csc)

\* the templates as adapted before the without-malicious variant is rendered
BoundWithout(t, P, motes) ==
    LET kept == [name \in DOMAIN t \ {"motes/Makefile", "motes/root.c",
                                       "motes/sensor.c", "motes/malicious.c"} |-> t[name]]
        t1 == SetField(kept, "simulation.csc", "title",
                       <<P.title, " (without the malicious mote)">>)
        t2 == SetField(t1, "simulation.csc", "motes", ButLast(motes))
    IN  SetField(t2, "simulation.csc", "mote_types",
                 ButLast(t2["simulation.csc"]["mote_types"]))

\* render_templates(path, only_malicious, **params): the files written under
\* with-malicious and without-malicious, each with the fields bound into it,
\* the two data/motes.json files, and the replacements returned
render_templates(only_malicious, P) ==
    LET cr == get_constants_and_replacements(
                  [constants |-> <<>>, replacements |-> <<>>], P.blocks, 1)
        t == SetField(TEMPLATES, "motes/malicious.c", "constants", cr.constants)
        motes == IF P.motes # <<>> THEN P.motes ELSE generate_motes(P.n)
        with == BoundWith(t, P, motes)
    IN  IF only_malicious
        THEN [NoArtifacts EXCEPT !.done = TRUE,
                                 !.with = "motes/malicious.c" :> t["motes/malicious.c"],
                                 !.replacements = cr.replacements]
        ELSE [done |-> TRUE,
              with |-> with, with_index |-> Dump(IndexDict(motes)),
              without |-> BoundWithout(with, P, motes),
              without_index |-> Dump(IndexDict(ButLast(motes))),
              replacements |-> cr.replacements]

(***************************************************************************)
(* render_templates called once, on a parameter set with or without a      *)
(* mote list supplied by the caller.                                       *)
(***************************************************************************)
\* a mote list supplied by the caller has at most this many motes
MaxMotes == 3

\* the motes a caller may list: identifiers are not checked to be distinct
Motes == [id : 0..(MaxMotes - 1), x : {0}, y : {0, 1}]

\* the parameter sets rendered
RenderParams ==
    [motes : SeqsUpTo(Motes, MaxMotes),
     blocks : {<<>>, <<"b1">>, <<"b1", "b2">>},
     target : {"z1"}, malicious_target : {"z1", "sky"},
     duration : {2, 5}, n : {1},
     title : {"Title"}, goal : {"Goal"}, notes : {"Notes"},
     int_range : {100}, tx_range : {50}]

InitRT ==
    /\ request \in [only_malicious : BOOLEAN, params : RenderParams]
    /\ artifacts = NoArtifacts
    /\ ParamIdle
    /\ StructIdle

Render ==
    /\ ~artifacts.done
    /\ artifacts' = render_templates(request.only_malicious, request.params)
    /\ UNCHANGED <<request, paramVars, structVars>>

NextRT == Render

SpecRT == InitRT /\ [][NextRT]_vars

(***************************************************************************)
(* Claims about the template set generator.                                *)
(***************************************************************************)
\* render_templates has run in full mode
FullRender == artifacts.done /\ ~request.only_malicious

\* the mote list bound into the variant rendered from templates t
MotesOf(t) == t["simulation.csc"]["motes"]

\* the identifiers of a mote list, of a position index
IdsOf(motes) == {motes[i].id : i \in 1..Len(motes)}

KeysOf(index) == {index[i].key : i \in 1..Len(index)}

EntriesOf(index) == {index[i] : i \in 1..Len(index)}

\* the identifier of the last mote of the with-malicious list
LastId == MotesOf(artifacts.with)[Len(MotesOf(artifacts.with))].id

\* the without-malicious list is the with-malicious list minus its last
\* element, and its index holds exactly the identifiers of that list
ShorterListAndIndex ==
    /\ Len(MotesOf(artifacts.with)) >= 1
    /\ MotesOf(artifacts.without) =
          SubSeq(MotesOf(artifacts.with), 1, Len(MotesOf(artifacts.with)) - 1)
    /\ KeysOf(artifacts.without_index) = IdsOf(MotesOf(artifacts.without))
    /\ KeysOf(artifacts.with_index) = IdsOf(MotesOf(artifacts.with))

\* C10 (as claimed): in full mode the without-malicious mote list is the
\* with-malicious list minus its last element, its index holds exactly the
\* identifiers of the shorter list, and the two index files differ by exactly
\* one entry, that of the last mote's identifier.
C10_Original ==
    FullRender =>
      /\ ShorterListAndIndex
      /\ EntriesOf(artifacts.without_index) \subseteq EntriesOf(artifacts.with_index)
      /\ \E e \in EntriesOf(artifacts.with_index) :
            /\ e.key = LastId
            /\ EntriesOf(artifacts.with_index) \ EntriesOf(artifacts.without_index) = {e}

\* C10 (amended): as claimed for every mote list whose last mote's identifier
\* does not occur earlier in the list; when it does occur earlier, the two
\* index files hold the same identifiers and differ at most in the
\* coordinates stored for that identifier.
C10_TwoVariantConsistency ==
    FullRender =>
      /\ ShorterListAndIndex
      /\ LastId \notin IdsOf(MotesOf(artifacts.without)) =>
            /\ EntriesOf(artifacts.without_index) \subseteq EntriesOf(artifacts.with_index)
            /\ \E e \in EntriesOf(artifacts.with_index) :
                  /\ e.key = LastId
                  /\ EntriesOf(artifacts.with_index)
                        \ EntriesOf(artifacts.without_index) = {e}
            /\ Len(artifacts.with_index) = Len(artifacts.without_index) + 1
      /\ LastId \in IdsOf(MotesOf(artifacts.without)) =>
            /\ KeysOf(artifacts.with_index) = KeysOf(artifacts.without_index)
            /\ \A e \in EntriesOf(artifacts.without_index) :
                  e.key # LastId => e \in EntriesOf(artifacts.with_index)

\* C10 witness: a full render of a caller's list of three motes with distinct
\* identifiers: three index entries with the malicious mote, two without.
C10_Witness ==
    /\ FullRender
    /\ request.params.motes = MotesOf(artifacts.with)
    /\ Len(MotesOf(artifacts.with)) = 3 /\ Len(MotesOf(artifacts.without)) = 2
    /\ Len(artifacts.with_index) = 3 /\ Len(artifacts.without_index) = 2

====
